---- MODULE Spec2Model ----
(***************************************************************************)
(* A model of src/common/colorlut.cpp (Pixy colour look-up table code):    *)
(* the degrading allocator maxMalloc, the chrominance sampler map, the     *)
(* mean estimator, the outlier search iterate/boundTest, the membership    *)
(* test checkBounds with the saturation swap of generate, the LUT          *)
(* operations add/clear and the region grower growRegion.                  *)
(*                                                                         *)
(* Each component has its own specification (SpecAlloc, SpecMap, ...).     *)
(* All of them share the variables below; a specification leaves the       *)
(* variables of the other components at their idle values.                 *)
(*                                                                         *)
(* Floating point values are modelled exactly: the inputs are small        *)
(* integers and the constants used are rationals, so every float           *)
(* comparison of the source agrees with the exact comparison made here.    *)
(***************************************************************************)
EXTENDS Integers, Sequences, FiniteSets

VARIABLES
    pc,             \* position of the operation being run
    \* maxMalloc
    initSize,       \* uint32_t initSize
    size,           \* int32_t size
    mem,            \* returned pointer: "unset", "buffer" or "NULL"
    allocSize,      \* *allocSize
    failed,         \* sizes for which malloc returned NULL (history)
    \* map / mean / iterate
    frame_width,    \* frame.m_width
    frame_height,   \* frame.m_height
    frame_pixels,   \* frame.m_pixels, row-major, index 0 .. width*height-1
    region,         \* RectA handed to map
    m_hpixelSize,   \* capacity of m_hpixels, in samples
    m_hpixels,      \* the sample buffer, a sequence of [m_u, m_v]
    m_hpixelLen,    \* number of samples map wrote
    meanVal,        \* Fpoint written by mean, components are rationals
    line,           \* Line of iterate: [m_slope, m_yi]
    step,           \* float step of iterate
    m_outlierRatio, \* rational [n, d]
    yi0,            \* line.m_yi when iterate was entered (history)
    \* checkBounds
    model,          \* ColorModel: [m_hue, m_sat], each a pair of lines
    pixel,          \* HuePixel handed to checkBounds
    inBounds,       \* value returned by checkBounds
    swapped,        \* generate exchanged m_sat[0] and m_sat[1] (history)
    \* LUT
    m_lut,          \* the table, restricted to the indices LutIndices
    lutBefore,      \* table before the last add (history)
    lutAdded,       \* table right after the last add (history)
    addIndex,       \* modelIndex of the last add, 0 before the first
    clearIndex,     \* modelIndex of the last clear
    \* growRegion
    seed,           \* Point16 seed
    grown,          \* RectA region of growRegion
    done,           \* uint8_t done, as the set of directions whose bit is set
    dir,            \* uint8_t dir
    result,         \* *result
    freed           \* free(m_hpixels) has been called

allocVars == <<initSize, size, mem, allocSize, failed>>
frameVars == <<frame_width, frame_height, frame_pixels>>
sampleVars == <<region, m_hpixelSize, m_hpixels, m_hpixelLen>>
meanVars == <<meanVal>>
iterVars == <<line, step, m_outlierRatio, yi0>>
checkVars == <<model, pixel, inBounds, swapped>>
lutVars == <<m_lut, lutBefore, lutAdded, addIndex, clearIndex>>
growVars == <<seed, grown, done, dir, result, freed>>

vars == <<pc, allocVars, frameVars, sampleVars, meanVars, iterVars,
          checkVars, lutVars, growVars>>

\* A value for a variable the running specification does not use.
Idle == "idle"

AllocIdle == initSize = Idle /\ size = Idle /\ mem = Idle /\ allocSize = Idle
             /\ failed = Idle
FrameIdle == frame_width = Idle /\ frame_height = Idle /\ frame_pixels = Idle
SampleIdle == region = Idle /\ m_hpixelSize = Idle /\ m_hpixels = Idle
              /\ m_hpixelLen = Idle
MeanIdle == meanVal = Idle
IterIdle == line = Idle /\ step = Idle /\ m_outlierRatio = Idle /\ yi0 = Idle
CheckIdle == model = Idle /\ pixel = Idle /\ inBounds = Idle /\ swapped = Idle
LutIdle == m_lut = Idle /\ lutBefore = Idle /\ lutAdded = Idle
           /\ addIndex = Idle /\ clearIndex = Idle
GrowIdle == seed = Idle /\ grown = Idle /\ done = Idle /\ dir = Idle
            /\ result = Idle /\ freed = Idle

----------------------------------------------------------------------------
(* Machine integers *)

Abs(x) == IF x < 0 THEN -x ELSE x

\* A uint32_t value is a record [hi, lo] of two 16-bit halves (the checker's
\* integers are 32-bit signed, so 2^31 .. 2^32-1 cannot be written as one).
Half == 65536

\* the uint32_t value of the integer x (x modulo 2^32)
U32(x) == [hi |-> (x \div Half) % Half, lo |-> x % Half]

\* conversion of a uint32_t value to int32_t (two's complement)
ToInt32(u) == (IF u.hi >= 32768 THEN u.hi - Half ELSE u.hi) * Half + u.lo

\* a <= b on uint32_t values
U32Le(a, b) == a.hi < b.hi \/ (a.hi = b.hi /\ a.lo <= b.lo)

\* conversion to int8_t (the store into HuePixel::m_u / m_v)
ToInt8(x) == ((x + 128) % 256) - 128

\* conversion to uint16_t (the store into a RectA field)
ToUint16(x) == x % 65536

----------------------------------------------------------------------------
(* maxMalloc, lines 41-59 *)

\* the decrement of the retry loop
MallocDecrement == 256

\* Requests of at most MaxBlocks decrements plus a remainder, and requests
\* with the top bit set.
MaxBlocks == 6

InitSizes == { U32(b * MallocDecrement + o) : b \in 0..MaxBlocks, o \in {0, 1, 255} }
             \cup { [hi |-> 32768, lo |-> 0], [hi |-> 32768, lo |-> 256],
                    [hi |-> 65535, lo |-> 65535] }

\* what the caller's variable may hold before the call
StaleSizes == {U32(0), U32(4660)}

AllocInit ==
    /\ pc = "malloc"
    /\ initSize \in InitSizes
    /\ size = ToInt32(initSize)
    /\ mem = "unset"
    /\ allocSize \in StaleSizes
    /\ failed = {}

allocOthers == <<frameVars, sampleVars, meanVars, iterVars, checkVars,
                 lutVars, growVars>>

\* while (size>=0) { mem = malloc(size); if (mem) {...return mem;}
MallocSucceeds ==
    /\ pc = "malloc"
    /\ size >= 0
    /\ mem' = "buffer"
    /\ allocSize' = U32(size)
    /\ pc' = "returned"
    /\ UNCHANGED <<initSize, size, failed, allocOthers>>

\* ... else size -= 0x100; }
MallocFails ==
    /\ pc = "malloc"
    /\ size >= 0
    /\ failed' = failed \cup {size}
    /\ size' = size - MallocDecrement
    /\ UNCHANGED <<pc, initSize, mem, allocSize, allocOthers>>

\* the loop condition fails: *allocSize = 0; return NULL;
MallocGivesUp ==
    /\ pc = "malloc"
    /\ size < 0
    /\ allocSize' = U32(0)
    /\ mem' = "NULL"
    /\ pc' = "returned"
    /\ UNCHANGED <<initSize, size, failed, allocOthers>>

NextAlloc == MallocSucceeds \/ MallocFails \/ MallocGivesUp

InitAllocSpec ==
    /\ AllocInit
    /\ FrameIdle /\ SampleIdle /\ MeanIdle /\ IterIdle /\ CheckIdle
    /\ LutIdle /\ GrowIdle

SpecAlloc == InitAllocSpec /\ [][NextAlloc]_vars

\* The sizes the claim says must have been tried before giving up:
\* the request and every size below it in decrements of 0x100, down to zero
\* (enumerated for requests below 2^31 only).
SizesToTry ==
    LET n == initSize.hi * Half + initSize.lo
    IN  { n - k * MallocDecrement : k \in 0..(n \div MallocDecrement) }

\* C5: maxMalloc returns either a buffer whose reported size is the size of
\* the malloc call that succeeded and is at most the request, or NULL with
\* size 0 and then only after malloc failed at the requested size and at
\* every size below it in decrements of 0x100.
C5_AllocContract ==
    pc = "returned" =>
        \/ /\ mem = "buffer"
           /\ allocSize = U32(size)
           /\ U32Le(allocSize, initSize)
        \/ /\ mem = "NULL"
           /\ allocSize = U32(0)
           /\ \E s \in failed : U32(s) = initSize
           /\ initSize.hi < 32768 => SizesToTry \subseteq failed

----------------------------------------------------------------------------
(* map, lines 177-210 *)

\* the value subtracted from each component sum (lines 200-201)
MapBias == 127

\* x | 1
Or1(x) == IF x % 2 = 0 THEN x + 1 ELSE x

Min(a, b) == IF a <= b THEN a ELSE b

\* number of iterations of "for (x=0; x<n; x+=2)"
Strides(n) == (n + 1) \div 2

\* The value of count when the loops of lines 188-207 end: one sample per
\* visited 2x2 block, never more than the capacity cap.
MapCount(reg, cap) == Min(Strides(reg.m_width) * Strides(reg.m_height), cap)

\* Index into frame.m_pixels of pixels[x] for the k-th sample (k = 1, 2, ...):
\* pixels starts at (yOffset|1)*width + (xOffset|1), advances by 2*width per
\* row of blocks, and x advances by 2 per block.
MapPos(w, reg, k) ==
    LET nx == Strides(reg.m_width)
        j  == (k - 1) \div nx
        i  == (k - 1) % nx
    IN  Or1(reg.m_yOffset) * w + Or1(reg.m_xOffset) + j * 2 * w + 2 * i

\* u = r+g1-127 computed in uint32_t, converted to int32_t, then u >>= 1
\* (arithmetic shift).  The same expression gives v from b and g2.
MapChroma(c, g) == ToInt32(U32(c + g - MapBias)) \div 2

\* The int32_t pair (u, v) of the k-th sample, before the store.
MapRaw(pix, w, reg, k) ==
    LET p  == MapPos(w, reg, k)
        r  == pix[p]
        g1 == pix[p - 1]
        g2 == pix[p - w]
        b  == pix[p - w - 1]
    IN  [m_u |-> MapChroma(r, g1), m_v |-> MapChroma(b, g2)]

\* m_hpixels[count].m_u = u; m_hpixels[count].m_v = v;  (int8_t fields)
MapStore(raw) == [m_u |-> ToInt8(raw.m_u), m_v |-> ToInt8(raw.m_v)]

\* Bounds of the frames and capacities the sampler is run on.
MaxFrameBlocks == 2
MaxCapacity == 2

\* pixel values: both ends and the middle of the 8-bit range
PixelVals == {0, 128, 255}

\* A region the caller may pass: inside the frame, and such that every pixel
\* map reads lies inside the frame buffer.
RegionInFrame(reg, w, h) ==
    /\ reg.m_xOffset + reg.m_width <= w
    /\ reg.m_yOffset + reg.m_height <= h
    /\ Or1(reg.m_xOffset) + 2 * (Strides(reg.m_width) - 1) < w
    /\ Or1(reg.m_yOffset) + 2 * (Strides(reg.m_height) - 1) < h

Regions(w, h) ==
    { reg \in [m_xOffset : 0..(w - 1), m_yOffset : 0..(h - 1),
               m_width : 1..w, m_height : 1..h] : RegionInFrame(reg, w, h) }

MapInit ==
    /\ pc = "map"
    /\ frame_width \in { 2 * n : n \in 1..MaxFrameBlocks }
    /\ frame_height = 2
    /\ frame_pixels \in [0..(frame_width * frame_height - 1) -> PixelVals]
    /\ region \in Regions(frame_width, frame_height)
    /\ m_hpixelSize \in 0..MaxCapacity
    /\ m_hpixels = <<>>
    /\ m_hpixelLen = 0

map ==
    /\ pc = "map"
    /\ LET count == MapCount(region, m_hpixelSize)
       IN  /\ m_hpixels' = [k \in 1..count |->
                              MapStore(MapRaw(frame_pixels, frame_width, region, k))]
           /\ m_hpixelLen' = count
    /\ pc' = "mapped"
    /\ UNCHANGED <<frameVars, region, m_hpixelSize>>
    /\ UNCHANGED <<allocVars, meanVars, iterVars, checkVars, lutVars, growVars>>

NextMap == map

InitMapSpec ==
    /\ MapInit
    /\ AllocIdle /\ MeanIdle /\ IterIdle /\ CheckIdle /\ LutIdle /\ GrowIdle

SpecMap == InitMapSpec /\ [][NextMap]_vars

\* the four pixels of the block of the k-th sample are all at mid-scale
MidScaleBlock(k) ==
    LET p == MapPos(frame_width, region, k)
    IN  \A q \in {p, p - 1, p - frame_width, p - frame_width - 1} :
            frame_pixels[q] = 128

\* C7: every (u, v) the sampler computes lies in the signed 8-bit range, so
\* the stored HuePixel equals the computed pair, and a block whose four
\* pixels are all 128 yields u = v = 0.
C7_ChromaFitsInt8 ==
    pc = "mapped" =>
        \A k \in 1..m_hpixelLen :
            LET raw == MapRaw(frame_pixels, frame_width, region, k)
            IN  /\ raw.m_u \in -128..127
                /\ raw.m_v \in -128..127
                /\ m_hpixels[k] = raw
                /\ MidScaleBlock(k) => m_hpixels[k] = [m_u |-> 0, m_v |-> 0]

----------------------------------------------------------------------------
(* tweakMean and mean, lines 212-242 *)

\* A float that is a quotient of integers is the rational [n, d], d > 0.
Rat(n, d) == [n |-> n, d |-> d]
RatLt(a, b) == a.n * b.d < b.n * a.d
RatEq(a, b) == a.n * b.d = b.n * a.d
RatNeg(a) == Rat(-a.n, a.d)
RatAbs(a) == Rat(Abs(a.n), a.d)

\* CL_MIN_MEAN of colorlut.h
CL_MIN_MEAN == Rat(1, 1000)

\* tweakMean with abs resolved to int abs(int): the argument is truncated
\* toward zero before the comparison
tweakMeanIntAbs(m) ==
    IF RatLt(Rat(Abs(m.n) \div m.d, 1), CL_MIN_MEAN)
    THEN IF m.n > 0 THEN CL_MIN_MEAN ELSE RatNeg(CL_MIN_MEAN)
    ELSE m

\* if (abs(*mean)<CL_MIN_MEAN) { if (*mean>0.0f) *mean = CL_MIN_MEAN;
\*                              else *mean = -CL_MIN_MEAN; }
tweakMean(m) ==
    IF RatLt(RatAbs(m), CL_MIN_MEAN)
    THEN IF m.n > 0 THEN CL_MIN_MEAN ELSE RatNeg(CL_MIN_MEAN)
    ELSE m

\* the loop of lines 228-232: usum += m_hpixels[i].m_u (and likewise vsum)
\* over i = lo .. hi.  The sums are integers far below 2^24, so the float
\* additions are exact and their order does not matter; the range is split
\* in halves to keep the evaluation shallow.
RECURSIVE SumU(_, _, _)
SumU(s, lo, hi) ==
    IF lo > hi THEN 0
    ELSE IF lo = hi THEN s[lo].m_u
    ELSE LET mid == (lo + hi) \div 2
         IN  SumU(s, lo, mid) + SumU(s, mid + 1, hi)
RECURSIVE SumV(_, _, _)
SumV(s, lo, hi) ==
    IF lo > hi THEN 0
    ELSE IF lo = hi THEN s[lo].m_v
    ELSE LET mid == (lo + hi) \div 2
         IN  SumV(s, lo, mid) + SumV(s, mid + 1, hi)

\* usum /= m_hpixelLen; vsum /= m_hpixelLen  (m_hpixelLen >= 1)
RawMeanU == Rat(SumU(m_hpixels, 1, m_hpixelLen), m_hpixelLen)
RawMeanV == Rat(SumV(m_hpixels, 1, m_hpixelLen), m_hpixelLen)

\* Sample sets: up to MaxMeanLen samples with components in MeanVals,
\* followed by PadLen samples (0, 0) or by none.
MaxMeanLen == 2
PadLen == 1100
MeanVals == {-2, -1, 0, 1}

MeanSamples ==
    UNION { [1..n -> [m_u : MeanVals, m_v : MeanVals]] : n \in 1..MaxMeanLen }

Padded(s, n) == s \o [k \in 1..n |-> [m_u |-> 0, m_v |-> 0]]

MeanInit ==
    /\ pc = "mean"
    /\ \E s \in MeanSamples : \E n \in {0, PadLen} : m_hpixels = Padded(s, n)
    /\ m_hpixelLen = Len(m_hpixels)
    /\ m_hpixelSize = m_hpixelLen
    /\ region = Idle
    /\ meanVal = [m_x |-> Rat(0, 1), m_y |-> Rat(0, 1)]

mean ==
    /\ pc = "mean"
    /\ meanVal' = [m_x |-> tweakMean(RawMeanU), m_y |-> tweakMean(RawMeanV)]
    /\ pc' = "meaned"
    /\ UNCHANGED sampleVars
    /\ UNCHANGED <<allocVars, frameVars, iterVars, checkVars, lutVars, growVars>>

NextMean == mean

InitMeanSpec ==
    /\ MeanInit
    /\ AllocIdle /\ FrameIdle /\ IterIdle /\ CheckIdle /\ LutIdle /\ GrowIdle

SpecMean == InitMeanSpec /\ [][NextMean]_vars

\* what the claim says of one component: raw is the raw mean, out the result
ClampedAsClaimed(raw, out) ==
    /\ ~RatLt(RatAbs(out), CL_MIN_MEAN)
    /\ RatLt(RatAbs(raw), CL_MIN_MEAN) =>
           RatEq(out, IF raw.n < 0 THEN RatNeg(CL_MIN_MEAN) ELSE CL_MIN_MEAN)
    /\ ~RatLt(RatAbs(raw), CL_MIN_MEAN) => out = raw

\* the same with a raw mean of exactly zero replaced by -CL_MIN_MEAN
ClampedAsCoded(raw, out) ==
    /\ ~RatLt(RatAbs(out), CL_MIN_MEAN)
    /\ RatLt(RatAbs(raw), CL_MIN_MEAN) =>
           RatEq(out, IF raw.n > 0 THEN CL_MIN_MEAN ELSE RatNeg(CL_MIN_MEAN))
    /\ ~RatLt(RatAbs(raw), CL_MIN_MEAN) => out = raw

\* C8 (as claimed): each component of the mean has magnitude >= CL_MIN_MEAN;
\* a raw mean below CL_MIN_MEAN in magnitude is replaced by CL_MIN_MEAN with
\* the raw mean's sign, +CL_MIN_MEAN for a raw mean of zero; a raw mean of
\* magnitude >= CL_MIN_MEAN is returned unchanged.
C8_MeanClampZeroPositive ==
    pc = "meaned" =>
        /\ ClampedAsClaimed(RawMeanU, meanVal.m_x)
        /\ ClampedAsClaimed(RawMeanV, meanVal.m_y)

\* C8 (amended): as above, but a raw mean of exactly zero is replaced by
\* -CL_MIN_MEAN.
C8_MeanClamp ==
    pc = "meaned" =>
        /\ ClampedAsCoded(RawMeanU, meanVal.m_x)
        /\ ClampedAsCoded(RawMeanV, meanVal.m_y)

\* C8 witness: mean has run on a set whose raw u mean is zero and whose raw
\* v mean is positive but below CL_MIN_MEAN; both were replaced.
C8_Witness ==
    /\ pc = "meaned"
    /\ RawMeanU.n = 0
    /\ meanVal.m_x = RatNeg(CL_MIN_MEAN)
    /\ RawMeanV.n > 0
    /\ RatLt(RawMeanV, CL_MIN_MEAN)
    /\ meanVal.m_y = CL_MIN_MEAN

----------------------------------------------------------------------------
(* boundTest and iterate, lines 244-278, as generate runs them on the       *)
(* samples map left behind (lines 97-135)                                   *)

\* float sign(float val), lines 28-34
sign(val) == IF val < 0 THEN -1 ELSE 1

\* boundTest: the number of samples with m_v below the line (dir > 0) or
\* above the line (otherwise), the line evaluated at the sample's m_u.
boundTest(l, d) ==
    Cardinality({ i \in 1..m_hpixelLen :
        LET v == m_hpixels[i].m_u * l.m_slope + l.m_yi
        IN  IF d > 0 THEN m_hpixels[i].m_v < v ELSE m_hpixels[i].m_v > v })

\* the exit test with the comparison turned round (ratio <= m_outlierRatio)
IterateBreakLe(l) ==
    /\ m_hpixelLen > 0
    /\ boundTest(l, sign(step)) * m_outlierRatio.d <= m_outlierRatio.n * m_hpixelLen

\* ratio = (float)boundTest(&line, sign(step))/m_hpixelLen;
\* if (ratio >= m_outlierRatio) break;
\* With m_hpixelLen = 0 the quotient is 0.0f/0 = NaN and the comparison is
\* false.
IterateBreak(l) ==
    /\ m_hpixelLen > 0
    /\ boundTest(l, sign(step)) * m_outlierRatio.d >= m_outlierRatio.n * m_hpixelLen

\* Bounds of the search: frames of 2 rows and up to MaxIterBlocks blocks,
\* capacities up to MaxIterCapacity, intercepts within YiCap.
MaxIterBlocks == 2
MaxIterCapacity == 2
YiCap == 300
IterPixelVals == {0, 255}
IterSlopes == {-1, 0, 1}
IterIntercepts == {-64, 0}
IterSteps == {-64, -32, 32, 64}
OutlierRatios == {Rat(9, 10), Rat(1, 2)}

\* generate is handed a frame and a region inside it; the region may be
\* empty, and the buffer maxMalloc obtained may hold no sample at all.
IterInit ==
    /\ pc = "map"
    /\ frame_width \in { 2 * n : n \in 1..MaxIterBlocks }
    /\ frame_height = 2
    /\ frame_pixels \in [0..(frame_width * frame_height - 1) -> IterPixelVals]
    /\ region \in [m_xOffset : {0}, m_yOffset : {0},
                   m_width : {0, frame_width}, m_height : {0, frame_height}]
    /\ m_hpixelSize \in 0..MaxIterCapacity
    /\ m_hpixels = <<>>
    /\ m_hpixelLen = 0
    /\ m_outlierRatio \in OutlierRatios
    /\ line = [m_slope |-> 0, m_yi |-> 0]
    /\ step = 0
    /\ yi0 = 0

iterOthers == <<allocVars, meanVars, checkVars, lutVars, growVars>>

\* generate calls iterate with a line and a step it computed from the mean
\* by atan2/tan/cos (lines 110-134); they are drawn from the sets above.
IterateEnter ==
    /\ pc = "mapped"
    /\ \E sl \in IterSlopes : \E yi \in IterIntercepts :
          /\ line' = [m_slope |-> sl, m_yi |-> yi]
          /\ yi0' = yi
    /\ step' \in IterSteps
    /\ pc' = "iterate"
    /\ UNCHANGED <<frameVars, sampleVars, m_outlierRatio, iterOthers>>

\* the test fails: line.m_yi += step.  (The intercept is kept within YiCap;
\* no search on a non-empty sample set comes near it.)
IterateAdvance ==
    /\ pc = "iterate"
    /\ ~IterateBreak(line)
    /\ Abs(line.m_yi + step) <= YiCap
    /\ line' = [line EXCEPT !.m_yi = @ + step]
    /\ UNCHANGED <<pc, frameVars, sampleVars, step, m_outlierRatio, yi0,
                   iterOthers>>

\* break; return line.m_yi;
IterateReturn ==
    /\ pc = "iterate"
    /\ IterateBreak(line)
    /\ pc' = "iterated"
    /\ UNCHANGED <<frameVars, sampleVars, iterVars, iterOthers>>

NextIter == map \/ IterateEnter \/ IterateAdvance \/ IterateReturn

InitIterSpec ==
    /\ IterInit
    /\ AllocIdle /\ MeanIdle /\ CheckIdle /\ LutIdle /\ GrowIdle

SpecIter == InitIterSpec /\ [][NextIter]_vars

\* C3 (as claimed): the line iterate returns, re-evaluated by boundTest with
\* the same step sign, has a counted fraction <= the outlier ratio.
C3_ResultFractionAtMostRatio ==
    (pc = "iterated" /\ m_hpixelLen > 0) =>
        boundTest(line, sign(step)) * m_outlierRatio.d
            <= m_outlierRatio.n * m_hpixelLen

\* C3 (amended): the line iterate returns, re-evaluated by boundTest with
\* the same step sign, has a counted fraction >= the outlier ratio.
C3_ResultFractionAtLeastRatio ==
    (pc = "iterated" /\ m_hpixelLen > 0) =>
        boundTest(line, sign(step)) * m_outlierRatio.d
            >= m_outlierRatio.n * m_hpixelLen

\* C3 witness: iterate returned on a non-empty sample set after moving the
\* line, and the counted fraction is strictly above the ratio.
C3_Witness ==
    /\ pc = "iterated"
    /\ m_hpixelLen > 0
    /\ line.m_yi # yi0
    /\ boundTest(line, sign(step)) * m_outlierRatio.d
           > m_outlierRatio.n * m_hpixelLen

\* more steps than any search of the bounded inputs needs
MaxIterSteps == 20

\* C10: the loop of iterate terminates on every sample buffer map can leave
\* behind: from every state inside the loop, the exit test holds after
\* finitely many further steps.
C10_IterateTerminates ==
    pc = "iterate" =>
        \E n \in 0..MaxIterSteps :
            IterateBreak([line EXCEPT !.m_yi = @ + n * step])

\* The same restricted to non-empty sample buffers (holds: the bound
\* MaxIterSteps is not what C10_IterateTerminates fails on).
IterateTerminatesNonEmpty ==
    (pc = "iterate" /\ m_hpixelLen > 0) =>
        \E n \in 0..MaxIterSteps :
            /\ IterateBreak([line EXCEPT !.m_yi = @ + n * step])
            /\ Abs(line.m_yi + n * step) <= YiCap

----------------------------------------------------------------------------
(* the saturation swap of generate, lines 156-163, and checkBounds,         *)
(* lines 332-353                                                            *)

\* value of a line at u: m_slope*u + m_yi
LineAt(l, u) == l.m_slope * u + l.m_yi

\* checkBounds with the two saturation comparisons turned round
checkBoundsSatTurned(m, p) ==
    IF LineAt(m.m_hue[0], p.m_u) < p.m_v THEN FALSE
    ELSE IF LineAt(m.m_hue[1], p.m_u) > p.m_v THEN FALSE
    ELSE IF LineAt(m.m_sat[0], p.m_u) > p.m_v THEN FALSE
    ELSE IF LineAt(m.m_sat[1], p.m_u) < p.m_v THEN FALSE
    ELSE TRUE

\* v = line(u); if (v < pixel.m_v) return false;   for m_hue[0], m_sat[0]
\* v = line(u); if (v > pixel.m_v) return false;   for m_hue[1], m_sat[1]
checkBounds(m, p) ==
    IF LineAt(m.m_hue[0], p.m_u) < p.m_v THEN FALSE
    ELSE IF LineAt(m.m_hue[1], p.m_u) > p.m_v THEN FALSE
    ELSE IF LineAt(m.m_sat[0], p.m_u) < p.m_v THEN FALSE
    ELSE IF LineAt(m.m_sat[1], p.m_u) > p.m_v THEN FALSE
    ELSE TRUE

\* Bounds: intercepts and pixel components within MaxCoord, slopes in
\* CheckSlopes.
MaxCoord == 2
CheckSlopes == {-1, 0, 1}
Coords == -MaxCoord..MaxCoord

MkLine(sl, yi) == [m_slope |-> sl, m_yi |-> yi]

\* The model as generate holds it at line 155: the two hue lines share the
\* slope of hueLine, the two saturation lines share pslope; the intercepts
\* come from iterate and the extensions of lines 122-152.
CheckInit ==
    /\ pc = "generate"
    /\ \E hs \in CheckSlopes, ps \in CheckSlopes :
       \E h0 \in Coords, h1 \in Coords, s0 \in Coords, s1 \in Coords :
          model = [m_hue |-> [i \in 0..1 |-> MkLine(hs, IF i = 0 THEN h0 ELSE h1)],
                   m_sat |-> [i \in 0..1 |-> MkLine(ps, IF i = 0 THEN s0 ELSE s1)]]
    /\ pixel = [m_u |-> 0, m_v |-> 0]
    /\ inBounds = FALSE
    /\ swapped = FALSE

checkOthers == <<allocVars, frameVars, sampleVars, meanVars, iterVars,
                 lutVars, growVars>>

\* if (model->m_sat[1].m_yi > model->m_sat[0].m_yi) { swap }
generate ==
    /\ pc = "generate"
    /\ IF model.m_sat[1].m_yi > model.m_sat[0].m_yi
       THEN /\ model' = [model EXCEPT !.m_sat = [i \in 0..1 |-> model.m_sat[1 - i]]]
            /\ swapped' = TRUE
       ELSE UNCHANGED <<model, swapped>>
    /\ pc' = "built"
    /\ UNCHANGED <<pixel, inBounds, checkOthers>>

\* a call of checkBounds on the built model
callCheckBounds ==
    /\ pc = "built"
    /\ \E u \in Coords, v \in Coords :
          /\ pixel' = [m_u |-> u, m_v |-> v]
          /\ inBounds' = checkBounds(model, pixel')
    /\ pc' = "checked"
    /\ UNCHANGED <<model, swapped, checkOthers>>

NextCheck == generate \/ callCheckBounds

InitCheckSpec ==
    /\ CheckInit
    /\ AllocIdle /\ FrameIdle /\ SampleIdle /\ MeanIdle /\ IterIdle
    /\ LutIdle /\ GrowIdle

SpecCheck == InitCheckSpec /\ [][NextCheck]_vars

\* C4 (as claimed): checkBounds returns true exactly when the pixel is at or
\* above the lower hue line m_hue[1], at or below the upper hue line
\* m_hue[0], at or above the line m_sat[0] and at or below the line
\* m_sat[1]; after the swap m_sat[1].m_yi <= m_sat[0].m_yi.
C4_SatAboveInnerBelowOuter ==
    pc = "checked" =>
        /\ inBounds <=>
              /\ pixel.m_v >= LineAt(model.m_hue[1], pixel.m_u)
              /\ pixel.m_v <= LineAt(model.m_hue[0], pixel.m_u)
              /\ pixel.m_v >= LineAt(model.m_sat[0], pixel.m_u)
              /\ pixel.m_v <= LineAt(model.m_sat[1], pixel.m_u)
        /\ model.m_sat[1].m_yi <= model.m_sat[0].m_yi

\* C4 (amended): checkBounds returns true exactly when the pixel is at or
\* above m_hue[1], at or below m_hue[0], at or below m_sat[0] and at or
\* above m_sat[1]; after the swap m_sat[1].m_yi <= m_sat[0].m_yi.
C4_SatBelowInnerAboveOuter ==
    pc = "checked" =>
        /\ inBounds <=>
              /\ pixel.m_v >= LineAt(model.m_hue[1], pixel.m_u)
              /\ pixel.m_v <= LineAt(model.m_hue[0], pixel.m_u)
              /\ pixel.m_v <= LineAt(model.m_sat[0], pixel.m_u)
              /\ pixel.m_v >= LineAt(model.m_sat[1], pixel.m_u)
        /\ model.m_sat[1].m_yi <= model.m_sat[0].m_yi

\* C4 witness: generate swapped the saturation lines and checkBounds
\* accepted a pixel strictly between them and strictly between the hue lines.
C4_Witness ==
    /\ pc = "checked"
    /\ swapped = TRUE
    /\ inBounds = TRUE
    /\ LineAt(model.m_sat[1], pixel.m_u) < pixel.m_v
    /\ pixel.m_v < LineAt(model.m_sat[0], pixel.m_u)
    /\ LineAt(model.m_hue[1], pixel.m_u) < pixel.m_v
    /\ pixel.m_v < LineAt(model.m_hue[0], pixel.m_u)

----------------------------------------------------------------------------
(* add and clear, lines 290-330 and 355-364, on the table the constructor   *)
(* cleared (lines 72-83)                                                    *)

\* CL_NUM_MODELS of colorlut.h: the class indices are 1 .. CL_NUM_MODELS
CL_NUM_MODELS == 7

\* the threshold of lines 305
AddThreshold == -50

\* The table is modelled at the indices whose two bytes are in LutCoords
\* (both sides of the threshold and the ends of the int8_t range).
LutCoords == {-128, -51, -50, -49, 0, 127}

\* the index whose high byte is u and whose low byte is v
LutIndex(u, v) == (u % 256) * 256 + (v % 256)

LutIndices == { LutIndex(u, v) : u \in LutCoords, v \in LutCoords }

\* p.m_v = (int8_t)(i&0xff); p.m_u = (int8_t)(i>>8);
IndexV(i) == ToInt8(i % 256)
IndexU(i) == ToInt8(i \div 256)

\* the value add writes at index i:
\* if (p.m_v<-50 || p.m_u<-50) m_lut[i] = 1; else m_lut[i] = 0;
AddEntry(i) == IF IndexV(i) < AddThreshold \/ IndexU(i) < AddThreshold THEN 1 ELSE 0

\* the value clear leaves at an entry holding e:
\* if (modelIndex==0 || (m_lut[i]&0x07)==modelIndex) m_lut[i] = 0;
ClearEntry(e, modelIndex) == IF modelIndex = 0 \/ (e % 8) = modelIndex THEN 0 ELSE e

\* the constructor: clear() with modelIndex 0 on the caller's memory
LutInit ==
    /\ pc = "constructed"
    /\ m_lut = [i \in LutIndices |-> 0]
    /\ lutBefore = m_lut
    /\ lutAdded = m_lut
    /\ addIndex = 0
    /\ clearIndex = 0

\* add(model, modelIndex): neither argument is read by the loop
add ==
    /\ \E modelIndex \in 1..CL_NUM_MODELS :
          /\ m_lut' = [i \in LutIndices |-> AddEntry(i)]
          /\ lutBefore' = m_lut
          /\ lutAdded' = m_lut'
          /\ addIndex' = modelIndex
    /\ pc' = "added"
    /\ UNCHANGED <<clearIndex, allocVars, frameVars, sampleVars, meanVars,
                   iterVars, checkVars, growVars>>

\* clear(modelIndex); pc tells whether it directly follows an add
clear ==
    /\ \E modelIndex \in 0..CL_NUM_MODELS :
          /\ m_lut' = [i \in LutIndices |-> ClearEntry(m_lut[i], modelIndex)]
          /\ clearIndex' = modelIndex
    /\ pc' = IF pc = "added" THEN "added_cleared" ELSE "cleared"
    /\ UNCHANGED <<lutBefore, lutAdded, addIndex, allocVars, frameVars,
                   sampleVars, meanVars, iterVars, checkVars, growVars>>

NextLut == add \/ clear

InitLutSpec ==
    /\ LutInit
    /\ AllocIdle /\ FrameIdle /\ SampleIdle /\ MeanIdle /\ IterIdle
    /\ CheckIdle /\ GrowIdle

SpecLut == InitLutSpec /\ [][NextLut]_vars

\* C2: after add(model, k) followed by clear(k), k in 1..7, every entry add
\* tagged is back to 0 and every entry that held a tag other than k before
\* the add still holds it.
C2_AddClearRoundTrip ==
    (pc = "added_cleared" /\ clearIndex = addIndex) =>
        \A i \in LutIndices :
            /\ lutAdded[i] # 0 => m_lut[i] = 0
            /\ (lutBefore[i] % 8) \notin {0, addIndex} => m_lut[i] = lutBefore[i]

\* C6: add sets entry i to the foreground tag exactly when both u and v
\* exceed the threshold -50, and to 0 otherwise.
C6_TagWhenBothAboveThreshold ==
    pc = "added" =>
        \A i \in LutIndices :
            m_lut[i] = IF IndexU(i) > AddThreshold /\ IndexV(i) > AddThreshold
                       THEN 1 ELSE 0

\* What add does write (holds): tag 1 exactly when u or v is below -50,
\* whatever the class index and the earlier content.
AddTagsBelowThreshold ==
    pc = "added" =>
        \A i \in LutIndices :
            m_lut[i] = IF IndexU(i) < AddThreshold \/ IndexV(i) < AddThreshold
                       THEN 1 ELSE 0

----------------------------------------------------------------------------
(* growRegion, lines 366-501 *)

GROW_INC == 4
\* GROW_REGION_ATTEN = 0.75f = AttenNum / AttenDen
AttenNum == 3
AttenDen == 4

\* the four directions: 0 left, 1 top, 2 right, 3 bottom; done == 0x0f
AllDirs == 0..3

Rect(x, y, w, h) == [m_xOffset |-> x, m_yOffset |-> y, m_width |-> w, m_height |-> h]

\* lines 386-393: the 2*GROW_INC square around the seed, cut at the right
\* and bottom frame edges
SeedRegion(sd, fw, fh) ==
    LET x == IF sd.m_x > GROW_INC THEN sd.m_x - GROW_INC ELSE 0
        y == IF sd.m_y > GROW_INC THEN sd.m_y - GROW_INC ELSE 0
        w == IF x + 2 * GROW_INC > fw THEN ToUint16(fw - x) ELSE 2 * GROW_INC
        h == IF y + 2 * GROW_INC > fh THEN ToUint16(fh - y) ELSE 2 * GROW_INC
    IN  Rect(x, y, w, h)

\* lines 407-458: the candidate strip newRegion on side d of region r, and
\* whether building it set the done bit (the strip met the frame edge)
Strip(r, d, fw, fh) ==
    CASE d = 0 ->
           IF r.m_xOffset > GROW_INC
           THEN [r |-> Rect(r.m_xOffset - GROW_INC, r.m_yOffset, GROW_INC, r.m_height),
                 edge |-> FALSE]
           ELSE [r |-> Rect(0, r.m_yOffset, GROW_INC, r.m_height), edge |-> TRUE]
      [] d = 1 ->
           IF r.m_yOffset > GROW_INC
           THEN [r |-> Rect(r.m_xOffset, r.m_yOffset - GROW_INC, r.m_width, GROW_INC),
                 edge |-> FALSE]
           ELSE [r |-> Rect(r.m_xOffset, 0, r.m_width, GROW_INC), edge |-> TRUE]
      [] d = 2 ->
           IF r.m_xOffset + r.m_width + GROW_INC > fw
           THEN [r |-> Rect(ToUint16(r.m_xOffset + r.m_width), r.m_yOffset,
                            ToUint16(fw - r.m_xOffset - r.m_width), r.m_height),
                 edge |-> TRUE]
           ELSE [r |-> Rect(ToUint16(r.m_xOffset + r.m_width), r.m_yOffset,
                            GROW_INC, r.m_height),
                 edge |-> FALSE]
      [] OTHER ->
           IF r.m_yOffset + r.m_height + GROW_INC > fh
           THEN [r |-> Rect(r.m_xOffset, ToUint16(r.m_yOffset + r.m_height),
                            r.m_width, ToUint16(fh - r.m_yOffset - r.m_height)),
                 edge |-> TRUE]
           ELSE [r |-> Rect(r.m_xOffset, ToUint16(r.m_yOffset + r.m_height),
                            r.m_width, GROW_INC),
                 edge |-> FALSE]

\* lines 472-487: add the accepted strip n to region r
Merge(r, n) ==
    IF n.m_xOffset < r.m_xOffset
    THEN [r EXCEPT !.m_xOffset = n.m_xOffset,
                   !.m_width = ToUint16(r.m_width + n.m_width)]
    ELSE IF n.m_yOffset < r.m_yOffset
    THEN [r EXCEPT !.m_yOffset = n.m_yOffset,
                   !.m_height = ToUint16(r.m_height + n.m_height)]
    ELSE IF n.m_xOffset + n.m_width > r.m_xOffset + r.m_width
    THEN [r EXCEPT !.m_width = ToUint16(r.m_width + n.m_width)]
    ELSE IF n.m_yOffset + n.m_height > r.m_yOffset + r.m_height
    THEN [r EXCEPT !.m_height = ToUint16(r.m_height + n.m_height)]
    ELSE r

\* lines 491-495: the width and height are multiplied by GROW_REGION_ATTEN
\* and truncated, then each offset moves by the new size times
\* (1-GROW_REGION_ATTEN)/2, truncated
Attenuate(r) ==
    LET w == (r.m_width * AttenNum) \div AttenDen
        h == (r.m_height * AttenNum) \div AttenDen
    IN  Rect(ToUint16(r.m_xOffset + (w * (AttenDen - AttenNum)) \div (2 * AttenDen)),
             ToUint16(r.m_yOffset + (h * (AttenDen - AttenNum)) \div (2 * AttenDen)),
             w, h)

\* the rejected strip leaves done unchanged
RejectKeepsGrowing(dn, d) == dn

\* line 469: done |= 1<<dir
Reject(dn, d) == dn \cup {d}

\* Bounds: frames up to MaxGrowDim wide and high; the capacity of the sample
\* buffer is 0 (maxMalloc returned a buffer too small for one sample) or
\* ample.
MaxGrowDim == 13
GrowCapacities == {0, 1000}

GrowInit ==
    /\ pc = "growRegion"
    /\ frame_width \in 1..MaxGrowDim
    /\ frame_height \in 1..MaxGrowDim
    /\ frame_pixels = Idle
    /\ \E x \in 0..(frame_width - 1), y \in 0..(frame_height - 1) :
          seed = [m_x |-> x, m_y |-> y]
    /\ mem \in {"buffer", "NULL"}
    /\ m_hpixelSize \in GrowCapacities
    /\ m_hpixels = Idle
    /\ m_hpixelLen = 0
    /\ region = Rect(0, 0, 0, 0)
    /\ grown = Rect(0, 0, 0, 0)
    /\ done = {}
    /\ dir = 0
    /\ result = Rect(0, 0, 0, 0)
    /\ freed = FALSE
    /\ initSize = Idle /\ size = Idle /\ allocSize = Idle /\ failed = Idle

growOthers == <<initSize, size, allocSize, failed, meanVars, iterVars,
                checkVars, lutVars>>

\* lines 379-381: maxMalloc returned NULL
GrowNoMemory ==
    /\ pc = "growRegion"
    /\ mem = "NULL"
    /\ pc' = "failed"
    /\ UNCHANGED <<mem, frameVars, sampleVars, growVars, growOthers>>

\* lines 383-398: the seed region, its samples and their mean
GrowSeed ==
    /\ pc = "growRegion"
    /\ mem = "buffer"
    /\ grown' = SeedRegion(seed, frame_width, frame_height)
    /\ region' = grown'
    /\ m_hpixelLen' = MapCount(grown', m_hpixelSize)
    /\ done' = {}
    /\ dir' = 0
    /\ pc' = "grow"
    /\ UNCHANGED <<mem, frameVars, m_hpixelSize, m_hpixels, seed, result,
                   freed, growOthers>>

\* line 405: the direction is done, continue
GrowSkip ==
    /\ pc = "grow"
    /\ dir \in done
    /\ dir' = (dir + 1) % 4
    /\ UNCHANGED <<pc, mem, frameVars, sampleVars, seed, grown, done, result,
                   freed, growOthers>>

\* lines 407-498 for a direction that is not done: build the strip, sample
\* it, accept or reject it, and return if all four directions are done.
\* far is the outcome of dist>GROW_MAX_DISTANCE, which the pixels decide.
GrowTry ==
    /\ pc = "grow"
    /\ dir \notin done
    /\ \E far \in BOOLEAN :
        LET s    == Strip(grown, dir, frame_width, frame_height)
            len  == MapCount(s.r, m_hpixelSize)
            dn1  == IF s.edge THEN done \cup {dir} ELSE done
            rej  == far \/ len = 0
            dn2  == IF rej THEN Reject(dn1, dir) ELSE dn1
            reg2 == IF rej THEN grown ELSE Merge(grown, s.r)
        IN  /\ region' = s.r
            /\ m_hpixelLen' = len
            /\ done' = dn2
            /\ grown' = reg2
            /\ IF dn2 = AllDirs
               THEN /\ result' = Attenuate(reg2)
                    /\ freed' = TRUE
                    /\ pc' = "returned"
                    /\ dir' = dir
               ELSE /\ dir' = (dir + 1) % 4
                    /\ UNCHANGED <<result, freed, pc>>
    /\ UNCHANGED <<mem, frameVars, m_hpixelSize, m_hpixels, seed, growOthers>>

NextGrow == GrowNoMemory \/ GrowSeed \/ GrowSkip \/ GrowTry

InitGrowSpec ==
    /\ GrowInit
    /\ MeanIdle /\ IterIdle /\ CheckIdle /\ LutIdle

\* growRegion runs to completion on its own thread: a step that can be
\* taken is taken.
SpecGrow == InitGrowSpec /\ [][NextGrow]_vars /\ WF_vars(NextGrow)

InFrame(r) ==
    /\ r.m_xOffset + r.m_width <= frame_width
    /\ r.m_yOffset + r.m_height <= frame_height

\* C1: the region of growRegion stays inside the frame: after the seed
\* region is built, after every merge, and for the attenuated result.
C1_RegionInsideFrame ==
    /\ pc \in {"grow", "returned"} => InFrame(grown)
    /\ pc = "returned" => InFrame(result)

\* the side dir of the region moved toward the frame edge in this step
SideMoved ==
    CASE dir = 0 -> grown'.m_xOffset < grown.m_xOffset
      [] dir = 1 -> grown'.m_yOffset < grown.m_yOffset
      [] dir = 2 -> grown'.m_xOffset + grown'.m_width > grown.m_xOffset + grown.m_width
      [] OTHER   -> grown'.m_yOffset + grown'.m_height > grown.m_yOffset + grown.m_height

\* C9: growRegion terminates.  Done bits are only ever set; every attempt on
\* a direction that is not done sets its bit or moves that side of the
\* region toward the frame edge; the function returns, it returns 0 exactly
\* when all four bits are set, and it has then freed the sample buffer.
C9_GrowTerminates ==
    /\ [][pc = "grow" => done \subseteq done']_vars
    /\ [][(pc = "grow" /\ dir \notin done) => (dir \in done' \/ SideMoved)]_vars
    /\ <>(pc \in {"returned", "failed"})
    /\ [](pc = "returned" => (done = AllDirs /\ freed))
    /\ [](pc = "grow" => done # AllDirs)

\* C9 witness: growRegion returned after merging strips on the left and on
\* the bottom.
C9_Witness ==
    /\ pc = "returned"
    /\ freed
    /\ done = AllDirs
    /\ grown.m_xOffset < SeedRegion(seed, frame_width, frame_height).m_xOffset
    /\ grown.m_yOffset + grown.m_height
         > SeedRegion(seed, frame_width, frame_height).m_yOffset
           + SeedRegion(seed, frame_width, frame_height).m_height

====
